---------------------------- MODULE Spec2Model ----------------------------
(***************************************************************************)
(* Model of the NucModel repository: the discounting primitives and the    *)
(* hourly operation simulator of plant.py, and the forecasting utilities   *)
(* and backcast harness of price_utils.py.                                 *)
(*                                                                         *)
(* Every function of the repository is synchronous and single-threaded.    *)
(* The state machine is a caller that invokes one function at a time: a    *)
(* Call action draws the arguments from bounded sets and runs the whole    *)
(* function (the operator of the same name, translated from the source),   *)
(* Resume hands control back to the caller.                                *)
(*                                                                         *)
(* Numbers.  Python's int/float values are modelled as exact rationals     *)
(* <<n, d>> in lowest terms with d > 0; IEEE rounding is not modelled.     *)
(* float('inf') is <<1, 0>> and NaN is <<0, 0>>.                           *)
(* Timestamps are integer minutes since EpochYear-01-01 00:00 (pandas      *)
(* keeps a Timestamp as an integer count since an epoch as well).          *)
(* Optional values: None is <<>>, a present value x is <<x>>.              *)
(***************************************************************************)
EXTENDS Integers, Sequences, FiniteSets

VARIABLES call, ret, frame

vars == <<call, ret, frame>>

(***************************************************************************)
(* Python values                                                           *)
(***************************************************************************)
None == <<>>

Some(x) == <<x>>

Return(v) == [kind |-> "return", value |-> v]

\* raise e(msg)
Raise(e, msg) == [kind |-> "raise", exc |-> e, msg |-> msg]

\* Python's error for x / 0
ZeroDivision == Raise("ZeroDivisionError", "division by zero")

Abs(n) == IF n < 0 THEN -n ELSE n

RECURSIVE Gcd(_, _)
Gcd(a, b) == IF b = 0 THEN a ELSE Gcd(b, a % b)

\* The rational n/d (d # 0) in lowest terms with a positive denominator.
Q(n, d) ==
    LET g == Gcd(Abs(n), Abs(d))
        s == IF d < 0 THEN -1 ELSE 1
    IN  <<(s * n) \div g, (s * d) \div g>>

QInt(n) == <<n, 1>>

QZero == <<0, 1>>

QOne == <<1, 1>>

Inf == <<1, 0>>

NaN == <<0, 0>>

QAdd(a, b) ==
    LET g == Gcd(a[2], b[2])
        l == (a[2] \div g) * b[2]
    IN  Q(a[1] * (l \div a[2]) + b[1] * (l \div b[2]), l)

QNeg(a) == <<-a[1], a[2]>>

QSub(a, b) == QAdd(a, QNeg(b))

QMul(a, b) ==
    LET g1 == Gcd(Abs(a[1]), b[2])
        g2 == Gcd(Abs(b[1]), a[2])
    IN  Q((a[1] \div g1) * (b[1] \div g2), (a[2] \div g2) * (b[2] \div g1))

\* a / b for b # 0; the callers test b = 0 first (ZeroDivisionError).
QDiv(a, b) == QMul(a, Q(b[2], b[1]))

QIsZero(a) == a[1] = 0

QLess(a, b) == QSub(a, b)[1] < 0

QGeq(a, b) == ~QLess(a, b)

RECURSIVE QPow(_, _)
QPow(a, k) == IF k = 0 THEN QOne ELSE QMul(a, QPow(a, k - 1))

\* s[lo] + ... + s[hi], summed by halves (exact arithmetic is associative;
\* the recursion stays shallow on long columns).
RECURSIVE QSumRange(_, _, _)
QSumRange(s, lo, hi) ==
    IF lo > hi THEN QZero
    ELSE IF lo = hi THEN s[lo]
    ELSE LET mid == (lo + hi) \div 2
         IN  QAdd(QSumRange(s, lo, mid), QSumRange(s, mid + 1, hi))

\* sum(s), Series.sum()
QSum(s) == QSumRange(s, 1, Len(s))

(***************************************************************************)
(* plant.py: discounting primitives                                        *)
(***************************************************************************)

\* (1 + discount_rate) ** k
DiscountFactor(discount_rate, k) == QPow(QAdd(QOne, discount_rate), k)

\* The loop of calculate_npv from zero-based position t with accumulator npv.
RECURSIVE NpvLoop(_, _, _, _)
NpvLoop(net_cash_flows, discount_rate, t, npv) ==
    IF t >= Len(net_cash_flows) THEN Return(npv)
    ELSE LET f == DiscountFactor(discount_rate, t + 1)
         IN  IF QIsZero(f) THEN ZeroDivision
             ELSE NpvLoop(net_cash_flows, discount_rate, t + 1,
                          QAdd(npv, QDiv(net_cash_flows[t + 1], f)))

\* Mutant: the first cash flow undiscounted (exponent t for t + 1).
calculate_npv_exponent_t(net_cash_flows, discount_rate) ==
    LET r == NpvLoop(net_cash_flows, discount_rate, 0, QZero)
    IN  IF r.kind = "return"
        THEN Return(QMul(r.value, QAdd(QOne, discount_rate)))
        ELSE r

calculate_npv(net_cash_flows, discount_rate) ==
    NpvLoop(net_cash_flows, discount_rate, 0, QZero)

\* sum(schedule[t] / ((1 + discount_rate) ** (t + 1)) for t in range(n)),
\* evaluated from position t on; <<>> when a division by zero raises.
RECURSIVE DiscountedSum(_, _, _, _)
DiscountedSum(schedule, discount_rate, n, t) ==
    IF t >= n THEN Some(QZero)
    ELSE LET f == DiscountFactor(discount_rate, t + 1)
             rest == DiscountedSum(schedule, discount_rate, n, t + 1)
         IN  IF QIsZero(f) \/ rest = None THEN None
             ELSE Some(QAdd(QDiv(schedule[t + 1], f), rest[1]))

\* Mutant: the residual value added to the costs.
TotalDiscountedCostsPlusResidual(discounted_investments, discounted_operations, discounted_residual_value) ==
    QAdd(QAdd(discounted_investments, discounted_operations), discounted_residual_value)

\* Line 59
TotalDiscountedCosts(discounted_investments, discounted_operations, discounted_residual_value) ==
    QSub(QAdd(discounted_investments, discounted_operations), discounted_residual_value)

calculate_lcoe(investment_costs, operation_costs, energy_production, discount_rate, residual_value) ==
    IF ~(Len(investment_costs) = Len(operation_costs)
         /\ Len(operation_costs) = Len(energy_production))
    THEN Raise("ValueError",
               "Input lists for costs and production must have the same length.")
    ELSE
      LET analysis_period_n == Len(investment_costs)
          discounted_investments ==
              DiscountedSum(investment_costs, discount_rate, analysis_period_n, 0)
          discounted_operations ==
              DiscountedSum(operation_costs, discount_rate, analysis_period_n, 0)
          fn == DiscountFactor(discount_rate, analysis_period_n)
          total_discounted_energy ==
              DiscountedSum(energy_production, discount_rate, analysis_period_n, 0)
      IN  IF discounted_investments = None \/ discounted_operations = None
             \/ QIsZero(fn) \/ total_discounted_energy = None
          THEN ZeroDivision
          ELSE
            LET discounted_residual_value == QDiv(residual_value, fn)
                total_discounted_costs ==
                    TotalDiscountedCosts(discounted_investments[1],
                                         discounted_operations[1],
                                         discounted_residual_value)
            IN  IF QIsZero(total_discounted_energy[1]) THEN Return(Inf)
                ELSE Return(QDiv(total_discounted_costs, total_discounted_energy[1]))

\* The loop of calculate_discounted_payback_period from position t.
RECURSIVE PaybackLoop(_, _, _, _)
PaybackLoop(net_cash_flows, discount_rate, t, cumulative) ==
    IF t >= Len(net_cash_flows) THEN Return(None)
    ELSE LET f == DiscountFactor(discount_rate, t)
         IN  IF QIsZero(f) THEN ZeroDivision
             ELSE LET c == QAdd(cumulative, QDiv(net_cash_flows[t + 1], f))
                  IN  IF QGeq(c, QZero) THEN Return(Some(t))
                      ELSE PaybackLoop(net_cash_flows, discount_rate, t + 1, c)

\* Mutant: payback declared only on a strictly positive cumulative sum.
RECURSIVE PaybackLoopStrict(_, _, _, _)
PaybackLoopStrict(net_cash_flows, discount_rate, t, cumulative) ==
    IF t >= Len(net_cash_flows) THEN Return(None)
    ELSE LET f == DiscountFactor(discount_rate, t)
         IN  IF QIsZero(f) THEN ZeroDivision
             ELSE LET c == QAdd(cumulative, QDiv(net_cash_flows[t + 1], f))
                  IN  IF QLess(QZero, c) THEN Return(Some(t))
                      ELSE PaybackLoopStrict(net_cash_flows, discount_rate, t + 1, c)

calculate_discounted_payback_period_strict(net_cash_flows, discount_rate) ==
    PaybackLoopStrict(net_cash_flows, discount_rate, 0, QZero)

calculate_discounted_payback_period(net_cash_flows, discount_rate) ==
    PaybackLoop(net_cash_flows, discount_rate, 0, QZero)

(***************************************************************************)
(* Calendar arithmetic of pandas Timestamps (proleptic Gregorian, no time  *)
(* zone): what .dayofyear, pd.Timedelta(days=..) and                       *)
(* pd.DateOffset(months=..) compute.                                       *)
(***************************************************************************)
Years == 2020 .. 2027

IsLeap(y) == (y % 4 = 0 /\ y % 100 # 0) \/ y % 400 = 0

DaysInMonth(y, m) ==
    IF m = 2 THEN (IF IsLeap(y) THEN 29 ELSE 28)
    ELSE IF m \in {4, 6, 9, 11} THEN 30 ELSE 31

LeapsBefore(y) == ((y - 1) \div 4) - ((y - 1) \div 100) + ((y - 1) \div 400)

\* Days from 2000-01-01 to y-01-01.
DaysBeforeYear(y) == 365 * (y - 2000) + LeapsBefore(y) - LeapsBefore(2000)

RECURSIVE DaysBeforeMonth(_, _)
DaysBeforeMonth(y, m) ==
    IF m = 1 THEN 0 ELSE DaysBeforeMonth(y, m - 1) + DaysInMonth(y, m - 1)

MinutesPerDay == 24 * 60

\* pd.Timestamp(year, month, day, hour, minute) as minutes since 2000-01-01.
Timestamp(y, m, d, h, mi) ==
    (DaysBeforeYear(y) + DaysBeforeMonth(y, m) + (d - 1)) * MinutesPerDay
        + h * 60 + mi

DayNumber(ts) == ts \div MinutesPerDay

YearOf(ts) ==
    CHOOSE y \in Years :
        DaysBeforeYear(y) <= DayNumber(ts) /\ DayNumber(ts) < DaysBeforeYear(y + 1)

\* Timestamp.dayofyear: 1 on January 1st.
DayOfYear(ts) == DayNumber(ts) - DaysBeforeYear(YearOf(ts)) + 1

MonthOf(ts) ==
    LET y == YearOf(ts)
    IN  CHOOSE m \in 1 .. 12 :
            /\ DaysBeforeMonth(y, m) < DayOfYear(ts)
            /\ DayOfYear(ts) <= DaysBeforeMonth(y, m) + DaysInMonth(y, m)

DayOfMonth(ts) == DayOfYear(ts) - DaysBeforeMonth(YearOf(ts), MonthOf(ts))

\* ts + pd.Timedelta(days=n)
AddDays(ts, n) == ts + n * MinutesPerDay

\* ts + pd.DateOffset(months=k): the calendar month is shifted by k, the day
\* of the month is kept unless the target month is shorter (then its last
\* day), the time of day is kept.
AddMonths(ts, k) ==
    LET total == YearOf(ts) * 12 + (MonthOf(ts) - 1) + k
        ny == total \div 12
        nm == (total % 12) + 1
        d == DayOfMonth(ts)
        nd == IF d > DaysInMonth(ny, nm) THEN DaysInMonth(ny, nm) ELSE d
    IN  Timestamp(ny, nm, nd, 0, 0) + (ts % MinutesPerDay)

(***************************************************************************)
(* Data frames: a price series is a sequence of rows                       *)
(* [timestamp, price]; positions are 1-based here, 0-based in pandas.      *)
(***************************************************************************)
Range(s) == {s[i] : i \in 1 .. Len(s)}

\* The sequence f itself, as an evaluated tuple: TLC otherwise re-evaluates
\* the body of a function constructor at every application.
ToSeq(f) == SubSeq(f, 1, Len(f))

Column(df, c) == ToSeq([i \in 1 .. Len(df) |-> df[i][c]])

\* DataFrame.empty
Empty(df) == Len(df) = 0

\* The position row i of df takes in timestamp order (rows with equal
\* timestamps keep their order).
SortedPosition(df, i) ==
    1 + Cardinality({j \in 1 .. Len(df) :
            \/ df[j].timestamp < df[i].timestamp
            \/ (df[j].timestamp = df[i].timestamp /\ j < i)})

\* df.sort_values("timestamp").reset_index(drop=True)
SortByTimestamp(df) ==
    IF \A i \in 1 .. Len(df) - 1 : df[i].timestamp <= df[i + 1].timestamp
    THEN df
    ELSE LET pos == ToSeq([i \in 1 .. Len(df) |-> SortedPosition(df, i)])
         IN  ToSeq([p \in 1 .. Len(df) |-> df[CHOOSE i \in 1 .. Len(df) : pos[i] = p]])

(***************************************************************************)
(* plant.py: simulate_plant_operation                                      *)
(***************************************************************************)

\* Mutant: the cycle counted in 31-day months.
ResolveFuelCost31(fuel_cost_per_mwh, fuel_cost_per_refueling, refueling_cycle_months, capacity_mw, capacity_factor) ==
    IF fuel_cost_per_mwh # None THEN Some(fuel_cost_per_mwh[1])
    ELSE IF fuel_cost_per_refueling = None THEN Some(QZero)
    ELSE LET hours_per_cycle == refueling_cycle_months * 31 * 24
             energy_per_cycle ==
                 QMul(QMul(capacity_mw, capacity_factor), QInt(hours_per_cycle))
         IN  IF QIsZero(energy_per_cycle) THEN None
             ELSE Some(QDiv(fuel_cost_per_refueling[1], energy_per_cycle))

\* Lines 131-137: the per-MWh fuel cost in force; <<>> when the division by
\* energy_per_cycle raises ZeroDivisionError.
ResolveFuelCost(fuel_cost_per_mwh, fuel_cost_per_refueling, refueling_cycle_months, capacity_mw, capacity_factor) ==
    IF fuel_cost_per_mwh # None THEN Some(fuel_cost_per_mwh[1])
    ELSE IF fuel_cost_per_refueling = None THEN Some(QZero)
    ELSE LET hours_per_cycle == refueling_cycle_months * 30 * 24
             energy_per_cycle ==
                 QMul(QMul(capacity_mw, capacity_factor), QInt(hours_per_cycle))
         IN  IF QIsZero(energy_per_cycle) THEN None
             ELSE Some(QDiv(fuel_cost_per_refueling[1], energy_per_cycle))

\* Mutant: the end of the window included.
WindowMaskClosed(df, start, maintenance_days) ==
    {i \in 1 .. Len(df) :
        /\ df[i].timestamp >= start
        /\ df[i].timestamp <= AddDays(start, maintenance_days)}

\* Lines 147-150: the positions of the rows inside the window at start.
WindowMask(df, start, maintenance_days) ==
    {i \in 1 .. Len(df) :
        /\ df[i].timestamp >= start
        /\ df[i].timestamp < AddDays(start, maintenance_days)}

\* index[mask][:n]: the n smallest positions of the mask (all if fewer).
FirstN(mask, n) == {i \in mask : Cardinality({j \in mask : j < i}) < n}

\* Line 151
DowntimeIdx(df, start, maintenance_days, downtime_hours) ==
    FirstN(WindowMask(df, start, maintenance_days), downtime_hours)

\* Line 152: df.loc[downtime_idx, "energy_mwh"] = 0.0
ZeroEnergy(df, downtime_idx) ==
    ToSeq([i \in 1 .. Len(df) |->
        IF i \in downtime_idx THEN [df[i] EXCEPT !.energy_mwh = QZero] ELSE df[i]])

\* Mutant: months counted as 30 days.
NextStart30Days(start, maintenance_interval_months) ==
    AddDays(start, maintenance_interval_months * 30)

\* Line 153: start += pd.DateOffset(months=maintenance_interval_months)
NextStart(start, maintenance_interval_months) ==
    AddMonths(start, maintenance_interval_months)

\* Iterations of the while loop that are followed before the call is
\* reported as not having returned.
MaxIter == 4

\* Lines 146-153: the while loop; <<>> when it is still running after
\* fuel iterations.
RECURSIVE MaintenanceLoop(_, _, _, _, _, _, _)
MaintenanceLoop(df, start, end_time, maintenance_days, downtime_hours, maintenance_interval_months, fuel) ==
    IF ~(start <= end_time) THEN Some(df)
    ELSE IF fuel = 0 THEN None
    ELSE MaintenanceLoop(
            ZeroEnergy(df, DowntimeIdx(df, start, maintenance_days, downtime_hours)),
            NextStart(start, maintenance_interval_months),
            end_time, maintenance_days, downtime_hours,
            maintenance_interval_months, fuel - 1)

\* Lines 155-160
Settle(df, fuel_cost_per_mwh) ==
    LET out == ToSeq([i \in 1 .. Len(df) |->
                 LET revenue == QMul(df[i].price, df[i].energy_mwh)
                     fuel_cost == QMul(fuel_cost_per_mwh, df[i].energy_mwh)
                 IN  [timestamp |-> df[i].timestamp,
                      price |-> df[i].price,
                      energy_mwh |-> df[i].energy_mwh,
                      revenue |-> revenue,
                      fuel_cost |-> fuel_cost,
                      profit |-> QSub(revenue, fuel_cost)]])
    IN  Return([total_profit |-> QSum(Column(out, "profit")), df |-> out])

\* The call has not returned after MaxIter iterations of the while loop.
NoReturn == [kind |-> "noreturn"]

simulate_plant_operation(prices, capacity_mw, fuel_cost_per_mwh, maintenance_days, capacity_factor, maintenance_interval_months, fuel_cost_per_refueling, refueling_cycle_months) ==
    IF Empty(prices) THEN Raise("ValueError", "Price data required for simulation")
    ELSE
      LET fuel == ResolveFuelCost(fuel_cost_per_mwh, fuel_cost_per_refueling,
                                  refueling_cycle_months, capacity_mw, capacity_factor)
          sorted == SortByTimestamp(prices)
          df == ToSeq([i \in 1 .. Len(sorted) |->
                   [timestamp |-> sorted[i].timestamp,
                    price |-> sorted[i].price,
                    energy_mwh |-> QMul(capacity_mw, capacity_factor)]])
          looped ==
              IF maintenance_days > 0
              THEN MaintenanceLoop(df, df[1].timestamp, df[Len(df)].timestamp,
                                   maintenance_days, maintenance_days * 24,
                                   maintenance_interval_months, MaxIter)
              ELSE Some(df)
      IN  IF fuel = None THEN ZeroDivision
          ELSE IF looped = None THEN NoReturn
          ELSE Settle(looped[1], fuel[1])

(***************************************************************************)
(* price_utils.py: forecasting utilities                                   *)
(***************************************************************************)

\* Series.mean(): NaN on an empty series.
Mean(s) == IF Len(s) = 0 THEN NaN ELSE QDiv(QSum(s), QInt(Len(s)))

\* A slice bound of Python, normalised to 0 .. n.
SliceBound(a, n) ==
    IF a < 0 THEN (IF a + n < 0 THEN 0 ELSE a + n)
    ELSE IF a > n THEN n ELSE a

\* df.iloc[a:b] with Python's 0-based, end-exclusive, clamped bounds.
ILocSlice(df, a, b) ==
    SubSeq(df, SliceBound(a, Len(df)) + 1, SliceBound(b, Len(df)))

\* df.tail(n): the last n rows; for n < 0 all rows but the first -n.
TailRows(df, n) ==
    IF n = 0 THEN <<>>
    ELSE IF n > 0 THEN ILocSlice(df, (IF n > Len(df) THEN 0 ELSE Len(df) - n), Len(df))
    ELSE ILocSlice(df, -n, Len(df))

NoPriceData == Raise("ValueError", "No price data available for forecasting")

forecast_next_hour(prices, window) ==
    IF Empty(prices) THEN NoPriceData
    ELSE Return(Mean(Column(TailRows(prices, window), "price")))

\* Max(S) for a non-empty set of integers.
Max(S) == CHOOSE x \in S : \A y \in S : y <= x

\* Mutant: the day-of-year of the latest timestamp itself.
NextDaySameDay(prices) == DayOfYear(Max(Range(Column(prices, "timestamp"))))

\* Line 215: (df["timestamp"].max() + pd.Timedelta(days=1)).dayofyear
NextDay(prices) == DayOfYear(AddDays(Max(Range(Column(prices, "timestamp"))), 1))

forecast_next_day_seasonal(prices) ==
    IF Empty(prices) THEN NoPriceData
    ELSE
      LET dayofyear == ToSeq([i \in 1 .. Len(prices) |-> DayOfYear(prices[i].timestamp)])
          \* df.groupby("dayofyear")["price"].mean()
          day_means ==
              [d \in Range(dayofyear) |->
                  LET InGroup(row) == DayOfYear(row.timestamp) = d
                  IN  Mean(Column(SelectSeq(prices, InGroup), "price"))]
          next_day == NextDay(prices)
      IN  IF next_day \in DOMAIN day_means THEN Return(day_means[next_day])
          ELSE Return(Mean(Column(prices, "price")))

(***************************************************************************)
(* forecast_arima.  statsmodels is outside the repository: what            *)
(* ARIMA(series, order=o).fit() does on the given series is an input, fit, *)
(* mapping each order to [ok |-> FALSE] (the fit raises) or to             *)
(* [ok |-> TRUE, aic |-> a, forecast |-> v].  AIC values are finite.       *)
(***************************************************************************)
AllOrders == {<<p, d, q>> : p \in 0 .. 2, d \in 0 .. 1, q \in 0 .. 2}

\* The position of an order in the nested loops over p, d, q.
GridIndex(o) == o[1] * 6 + o[2] * 3 + o[3]

OrderAt(n) == CHOOSE o \in AllOrders : GridIndex(o) = n

\* Lines 170-184 from grid position n on, with the best fit so far.
RECURSIVE GridSearch(_, _, _, _)
GridSearch(fit, n, best_aic, best_order) ==
    IF n > 17 THEN best_order
    ELSE LET o == OrderAt(n)
         IN  IF o = <<0, 0, 0>> THEN GridSearch(fit, n + 1, best_aic, best_order)
             ELSE IF ~fit[o].ok THEN GridSearch(fit, n + 1, best_aic, best_order)
             ELSE IF best_aic = Inf \/ QLess(fit[o].aic, best_aic)
                  THEN GridSearch(fit, n + 1, fit[o].aic, o)
                  ELSE GridSearch(fit, n + 1, best_aic, best_order)

\* Mutant: the search starts from (0, 0, 0) as the default order.
ChooseOrderDefaultZero(order, fit) ==
    IF order = None THEN GridSearch(fit, 0, Inf, <<0, 0, 0>>) ELSE order[1]

\* Lines 164-185: the order handed to the final fit.
ChooseOrder(order, fit) ==
    IF order = None THEN GridSearch(fit, 0, Inf, <<1, 0, 0>>) ELSE order[1]

\* The result carries the order of the final ARIMA(...) call (line 187).
forecast_arima(prices, order, fit) ==
    IF Empty(prices) THEN NoPriceData
    ELSE LET o == ChooseOrder(order, fit)
         IN  IF fit[o].ok
             THEN [kind |-> "return", value |-> fit[o].forecast, order |-> o]
             ELSE [kind |-> "raise", exc |-> "Exception", msg |-> "ARIMA fit",
                   order |-> o]

(***************************************************************************)
(* price_utils.py: backcast                                                *)
(***************************************************************************)

\* forecast_func(history) for the forecasters of this module, called with
\* their default arguments.
ApplyForecast(forecast_func, history) ==
    IF forecast_func = "forecast_next_hour" THEN forecast_next_hour(history, 24)
    ELSE forecast_next_day_seasonal(history)

\* Series.iloc[i] for an integer i: position i, or len + i when i < 0.
ILoc(s, i) == IF i < 0 THEN s[Len(s) + i + 1] ELSE s[i + 1]

\* Mutant: the history includes row i.
HistoryLookAhead(prices, i, window) == ILocSlice(prices, i - window + 1, i + 1)

\* Line 252: history = prices.iloc[i - window : i]
History(prices, i, window) == ILocSlice(prices, i - window, i)

\* Lines 251-261 from index i on; records holds the rows appended so far.
RECURSIVE BackcastLoop(_, _, _, _, _)
BackcastLoop(prices, forecast_func, window, i, records) ==
    IF i >= Len(prices) THEN Return(records)
    ELSE LET history == History(prices, i, window)
             predicted == ApplyForecast(forecast_func, history)
         IN  IF predicted.kind = "raise" THEN predicted
             ELSE IF i < -Len(prices) THEN Raise("IndexError", "out of bounds")
             ELSE LET actual == ILoc(prices, i).price
                      ts == ILoc(prices, i).timestamp
                  IN  BackcastLoop(prices, forecast_func, window, i + 1,
                          Append(records,
                                 [timestamp |-> ts, actual |-> actual,
                                  predicted |-> predicted.value,
                                  error |-> QSub(actual, predicted.value)]))

\* Mutant: a series exactly as long as the window is accepted.
backcast_accepts_equal(prices, forecast_func, window) ==
    IF Len(prices) < window
    THEN Raise("ValueError", "Not enough data for backcasting")
    ELSE BackcastLoop(prices, forecast_func, window, window, <<>>)

backcast(prices, forecast_func, window) ==
    IF Len(prices) <= window
    THEN Raise("ValueError", "Not enough data for backcasting")
    ELSE BackcastLoop(prices, forecast_func, window, window, <<>>)

(***************************************************************************)
(* plant.py: run_example.  params is the record read from the JSON file;   *)
(* optional keys hold <<>> when absent.  The function prints its results   *)
(* and returns None: the values it prints are kept in `locals`.            *)
(* numpy_financial.irr is outside the repository and only printed.         *)
(***************************************************************************)

\* [v] * n
Repeat(v, n) == ToSeq([i \in 1 .. n |-> v])

\* Lines 192-195: the loop over the operational years.
RECURSIVE OpCostLoop(_, _, _, _)
OpCostLoop(op_cost_schedule, current_cost, op_cost_inflation, remaining) ==
    IF remaining = 0 THEN op_cost_schedule
    ELSE OpCostLoop(Append(op_cost_schedule, current_cost),
                    QMul(current_cost, QAdd(QOne, op_cost_inflation)),
                    op_cost_inflation, remaining - 1)

\* Mutant: the decommissioning cost added to the first year, [0] for [-1].
AddDecommissioningFirstYear(op_cost_schedule, decommissioning) ==
    [op_cost_schedule EXCEPT ![1] = QAdd(@, decommissioning)]

\* Line 196: op_cost_schedule[-1] += decommissioning
AddDecommissioning(op_cost_schedule, decommissioning) ==
    [op_cost_schedule EXCEPT ![Len(op_cost_schedule)] = QAdd(@, decommissioning)]

\* Mutant: the simulated period starts in the middle of a year.
ExampleStartMidYear == Timestamp(2023, 7, 1, 0, 0)

\* Line 200: pd.date_range("2024-01-01", ...)
ExampleStart == Timestamp(2024, 1, 1, 0, 0)

\* Lines 199-201: operational_years * 365 * 24 hourly rows at one price.
PriceFrame(operational_years, electricity_price) ==
    ToSeq([i \in 1 .. operational_years * 365 * 24 |->
        [timestamp |-> ExampleStart + (i - 1) * 60, price |-> electricity_price]])

\* Lines 203-213: the per-MWh fuel cost handed to the simulator; <<>> when
\* the division by cycle_energy raises ZeroDivisionError.
ExampleFuelCost(fuel_cost, fuel_per_refueling, refuel_months, capacity_mw, capacity_factor) ==
    IF fuel_cost = None /\ fuel_per_refueling # None
    THEN LET hours_per_cycle == refuel_months * 30 * 24
             cycle_energy == QMul(QMul(capacity_mw, capacity_factor), QInt(hours_per_cycle))
         IN  IF QIsZero(cycle_energy) THEN None
             ELSE Some(QDiv(fuel_per_refueling[1], cycle_energy))
    ELSE IF fuel_cost = None THEN Some(QZero)
    ELSE fuel_cost

\* The elements of a finite set of integers in ascending order.
RECURSIVE SortedSeq(_)
SortedSeq(S) ==
    IF S = {} THEN <<>>
    ELSE LET least == CHOOSE x \in S : \A y \in S : x <= y
         IN  <<least>> \o SortedSeq(S \ {least})

\* The sum of values[lo .. hi] over the rows of group y, summed by halves.
RECURSIVE GroupSum(_, _, _, _, _)
GroupSum(year, values, y, lo, hi) ==
    IF lo > hi THEN QZero
    ELSE IF lo = hi THEN (IF year[lo] = y THEN values[lo] ELSE QZero)
    ELSE LET mid == (lo + hi) \div 2
         IN  QAdd(GroupSum(year, values, y, lo, mid),
                  GroupSum(year, values, y, mid + 1, hi))

\* Lines 225-226: op_df.groupby("year")[column].sum().tolist(), year being
\* the column added at line 224.
SumByYear(year, values) ==
    LET years == SortedSeq(Range(year))
    IN  ToSeq([g \in 1 .. Len(years) |-> GroupSum(year, values, years[g], 1, Len(year))])

\* Lines 198-226: the simulated operation, summed by calendar year.
ExampleOperation(operational_years, electricity_price, capacity_mw, capacity_factor, fuel_cost, fuel_per_refueling, refuel_months, maintenance_days) ==
    LET price_df == PriceFrame(operational_years, electricity_price)
        fuel == ExampleFuelCost(fuel_cost, fuel_per_refueling, refuel_months,
                                capacity_mw, capacity_factor)
    IN  IF fuel = None THEN ZeroDivision
        ELSE LET sim == simulate_plant_operation(price_df, capacity_mw, fuel,
                            maintenance_days, capacity_factor, 18, None, 18)
             IN  IF sim.kind # "return" THEN sim
                 ELSE LET op_df == sim.value.df
                          year == ToSeq([i \in 1 .. Len(op_df) |-> YearOf(op_df[i].timestamp)])
                      IN  Return([energy_by_year |-> SumByYear(year, Column(op_df, "energy_mwh")),
                                  revenue_by_year |-> SumByYear(year, Column(op_df, "revenue")),
                                  total_profit |-> sim.value.total_profit])

\* Lines 228-234: the loop over zip(energy_by_year, revenue_by_year).
RECURSIVE DegradeLoop(_, _, _, _, _, _)
DegradeLoop(energy_by_year, revenue_by_year, j, degrade, energy_schedule, revenue_schedule) ==
    IF j > Len(energy_by_year) \/ j > Len(revenue_by_year)
    THEN [energy_schedule |-> energy_schedule, revenue_schedule |-> revenue_schedule]
    ELSE DegradeLoop(energy_by_year, revenue_by_year, j + 1,
                     QMul(degrade, Q(999, 1000)),
                     Append(energy_schedule, QMul(energy_by_year[j], degrade)),
                     Append(revenue_schedule,
                            QDiv(QMul(revenue_by_year[j], degrade), QInt(1000000))))

\* Lines 236-238: numpy's elementwise a - (b + c); arrays of one element
\* are broadcast, other unequal lengths raise ValueError.
Broadcast(a, n) == IF Len(a) = n THEN a ELSE Repeat(a[1], n)

CanBroadcast(m, n) == m = n \/ m = 1 \/ n = 1

NetCashFlows(revenue_schedule, investment_schedule, op_cost_schedule) ==
    LET n1 == IF Len(investment_schedule) = 1 THEN Len(op_cost_schedule)
              ELSE Len(investment_schedule)
        n == IF Len(revenue_schedule) = 1 THEN n1 ELSE Len(revenue_schedule)
    IN  IF ~CanBroadcast(Len(investment_schedule), Len(op_cost_schedule))
           \/ ~CanBroadcast(Len(revenue_schedule), n1)
        THEN Raise("ValueError", "operands could not be broadcast together")
        ELSE LET costs == ToSeq([i \in 1 .. n1 |->
                              QAdd(Broadcast(investment_schedule, n1)[i],
                                   Broadcast(op_cost_schedule, n1)[i])])
             IN  Return(ToSeq([i \in 1 .. n |->
                            QSub(Broadcast(revenue_schedule, n)[i],
                                 Broadcast(costs, n)[i])]))

\* Lines 172-196 and 228-288, given the outcome of lines 198-226.
RunExampleWith(params, operation) ==
    LET construction_years == params.construction_period_years
        operational_years == params.operational_life_years
        total_years == construction_years + operational_years
        discount_rate == params.discount_rate
    IN  IF construction_years = 0 THEN ZeroDivision
        ELSE
          LET annual_investment ==
                  QDiv(params.overnight_cost_usd_million, QInt(construction_years))
              investment_schedule ==
                  Repeat(annual_investment, construction_years)
                      \o Repeat(QZero, operational_years)
              op_cost_schedule ==
                  AddDecommissioning(
                      OpCostLoop(Repeat(QZero, construction_years),
                                 params.annual_operation_cost_usd_million,
                                 params.op_cost_inflation, operational_years),
                      params.decommissioning_cost_usd_million)
          IN  IF operation.kind # "return" THEN operation
              ELSE
                LET schedules ==
                        DegradeLoop(operation.value.energy_by_year,
                                    operation.value.revenue_by_year, 1, QOne,
                                    Repeat(QZero, construction_years),
                                    Repeat(QZero, construction_years))
                    net_cash_flows ==
                        NetCashFlows(schedules.revenue_schedule, investment_schedule,
                                     op_cost_schedule)
                    lcoe_result ==
                        calculate_lcoe(investment_schedule, op_cost_schedule,
                                       schedules.energy_schedule, discount_rate,
                                       params.residual_value_usd_million)
                    npv_result == calculate_npv(net_cash_flows.value, discount_rate)
                    payback == calculate_discounted_payback_period(net_cash_flows.value,
                                                                   discount_rate)
                IN  IF net_cash_flows.kind # "return" THEN net_cash_flows
                    ELSE IF lcoe_result.kind # "return" THEN lcoe_result
                    ELSE IF npv_result.kind # "return" THEN npv_result
                    ELSE IF payback.kind # "return" THEN payback
                    ELSE [kind |-> "return", value |-> None,
                          locals |-> [total_years |-> total_years,
                                      investment_schedule |-> investment_schedule,
                                      op_cost_schedule |-> op_cost_schedule,
                                      energy_by_year |-> operation.value.energy_by_year,
                                      revenue_by_year |-> operation.value.revenue_by_year,
                                      energy_schedule |-> schedules.energy_schedule,
                                      revenue_schedule |-> schedules.revenue_schedule,
                                      net_cash_flows |-> net_cash_flows.value,
                                      lcoe_result |-> lcoe_result.value,
                                      npv_result |-> npv_result.value,
                                      payback |-> payback.value,
                                      total_profit |-> operation.value.total_profit]]

run_example(params) ==
    RunExampleWith(params,
        ExampleOperation(params.operational_life_years,
                         params.electricity_price_usd_per_mwh,
                         params.plant_capacity_mw, params.capacity_factor,
                         params.fuel_cost_per_mwh, params.fuel_cost_per_refueling,
                         params.refueling_cycle_months, params.maintenance_days))

(***************************************************************************)
(* The caller's DataFrame.  The functions receive a reference to it; the   *)
(* heap holds that object and the object the callee binds to df (when it   *)
(* makes one), and an assignment df[column] = ... writes to the object df  *)
(* refers to.                                                              *)
(***************************************************************************)
CallerFrame == "prices"
NewFrame == "df"

\* The heap once the callee has written `written` to the object df.
HeapAfter(prices, df, written) ==
    [o \in {CallerFrame, df} |-> IF o = df THEN written ELSE prices]

\* Mutant: df = prices, sorted and extended in place.
simulate_df_in_place == CallerFrame

\* plant.py line 139: df = prices.copy().sort_values("timestamp")
\* .reset_index(drop=True), a new DataFrame.
simulate_df == NewFrame

\* plant.py lines 139-160: the caller's DataFrame after the call.  The
\* checks and the fuel-cost division come before line 139.
simulate_plant_operation_frame(prices, result) ==
    IF result.kind = "raise" THEN prices
    ELSE IF result.kind = "return"
         THEN HeapAfter(prices, simulate_df, result.value.df)[CallerFrame]
         ELSE HeapAfter(prices, simulate_df, SortByTimestamp(prices))[CallerFrame]

\* Mutant: df = prices, the day-of-year column added to the caller's frame.
seasonal_df_in_place == CallerFrame

\* price_utils.py line 212: df = prices.copy()
seasonal_df == NewFrame

\* price_utils.py lines 212-213: the caller's DataFrame after the call.
forecast_next_day_seasonal_frame(prices) ==
    IF Empty(prices) THEN prices
    ELSE HeapAfter(prices, seasonal_df,
                   ToSeq([i \in 1 .. Len(prices) |->
                       [timestamp |-> prices[i].timestamp, price |-> prices[i].price,
                        dayofyear |-> DayOfYear(prices[i].timestamp)]]))[CallerFrame]

\* price_utils.py lines 137-140: tail(window)["price"].mean() assigns nothing.
forecast_next_hour_frame(prices) == prices

\* price_utils.py lines 250-261: every history is a new DataFrame (an iloc
\* slice) handed to forecast_func; prices itself is only read.
backcast_frame(prices, forecast_func, window) == prices

(***************************************************************************)
(* Bounded inputs                                                          *)
(***************************************************************************)

\* Sequences over S of length 0 .. n.
SeqsUpTo(S, n) == UNION {[1 .. k -> S] : k \in 0 .. n}

\* Longest cash-flow sequence handed to NPV and payback.
MaxCashFlows == 4

\* Longest schedule handed to LCOE.
MaxSchedule == 2

CashValues == {QInt(-100), QInt(40), QInt(60)}

\* -2 and -1 make 1 + rate negative and zero.
Rates == {QInt(-2), QInt(-1), QZero, Q(1, 20), Q(1, 10)}

CashFlowSeqs == SeqsUpTo(CashValues, MaxCashFlows)

InvestSchedules == SeqsUpTo({QZero, QInt(50)}, MaxSchedule)

OpexSchedules == SeqsUpTo({QZero, QInt(10)}, MaxSchedule)

EnergySchedules == SeqsUpTo({QZero, QInt(100)}, MaxSchedule)

ResidualValues == {QZero, QInt(5)}

\* Rows of the longest contiguous series.
MaxRows == 48

\* Rows of the longest series picked from DatePool.
MaxSparse == 3

T0 == Timestamp(2024, 1, 1, 0, 0)

\* n rows from t0, step minutes apart, priced 50, or 50 + (position mod 3).
Contiguous(t0, n, step, ramp) ==
    ToSeq([i \in 1 .. n |->
        [timestamp |-> t0 + (i - 1) * step,
         price |-> QInt(50 + (IF ramp THEN (i - 1) % 3 ELSE 0))]])

HourlySeries ==
    {Contiguous(T0, n, 60, FALSE) : n \in {24, 25, MaxRows}}
        \cup {Contiguous(T0, MaxRows, 60, TRUE)}

\* Two rows per hour: more than 24 rows fall inside one day.
HalfHourlySeries == {Contiguous(T0, MaxRows + 2, 30, TRUE)}

\* Month ends, month starts and a leap day, for the month-based recurrence.
DatePool ==
    {Timestamp(2024, 1, 1, 0, 0),  Timestamp(2024, 1, 31, 0, 0),
     Timestamp(2024, 2, 1, 0, 0),  Timestamp(2024, 2, 29, 0, 0),
     Timestamp(2024, 3, 29, 0, 0), Timestamp(2024, 3, 31, 0, 0)}

\* A price that differs between the days of a month and between years.
PriceAt(ts) == QInt(DayOfMonth(ts) + 10 * (YearOf(ts) % 10))

RowAt(ts) == [timestamp |-> ts, price |-> PriceAt(ts)]

RECURSIVE Ascending(_)
Ascending(S) ==
    IF S = {} THEN <<>>
    ELSE LET m == CHOOSE x \in S : \A y \in S : x <= y
         IN  <<RowAt(m)>> \o Ascending(S \ {m})

Reverse(s) == ToSeq([i \in 1 .. Len(s) |-> s[Len(s) + 1 - i]])

SparseSets == {S \in SUBSET DatePool : Cardinality(S) \in 1 .. MaxSparse}

\* Sorted series, and the two-row ones also in descending order.
SparseSeries ==
    {Ascending(S) : S \in SparseSets}
        \cup {Reverse(Ascending(S)) : S \in {X \in SparseSets : Cardinality(X) = 2}}

SimSeries == {<<>>} \cup HourlySeries \cup HalfHourlySeries \cup SparseSeries

\* (capacity_mw, capacity_factor): an idle plant and two running ones.
Plants == {<<QZero, QOne>>, <<QInt(1000), QOne>>, <<QInt(1000), Q(9, 10)>>}

FuelRates == {QInt(10)}

MaintenanceDays == {0, 1, 2}

MaintenanceIntervals == {0, 1, 2}

RefuelingCycles == {0, 18}

\* The per-refueling cost that the tests take as equivalent to the per-MWh
\* rate c: cycle-length hours x capacity x capacity factor x c.
EquivalentRefuelingCost(refueling_cycle_months, capacity_mw, capacity_factor, c) ==
    QMul(QMul(QMul(QInt(refueling_cycle_months * 30 * 24), capacity_mw),
              capacity_factor), c)

\* <<fuel_cost_per_mwh, fuel_cost_per_refueling, refueling_cycle_months>>
\* for one plant; the cycle length varies where the code reads it.
FuelArgs(cap, cf) ==
    {<<None, None, 18>>}
        \cup {<<Some(c), None, 18>> : c \in FuelRates}
        \cup {<<Some(c), Some(QInt(1000)), 18>> : c \in FuelRates}
        \cup {<<None, Some(QInt(1000)), cycle>> : cycle \in RefuelingCycles}
        \cup {<<None, Some(EquivalentRefuelingCost(cycle, cap, cf, c)), cycle>> :
                 c \in FuelRates, cycle \in RefuelingCycles}

\* Daily observations over three years: a year end, a leap day, and two
\* March 1sts that share day-of-year 60 with the leap day.
DailyPool ==
    {Timestamp(2022, 3, 1, 0, 0),   Timestamp(2023, 1, 1, 0, 0),
     Timestamp(2023, 3, 1, 0, 0),   Timestamp(2023, 12, 31, 0, 0),
     Timestamp(2024, 2, 28, 0, 0),  Timestamp(2024, 2, 29, 0, 0),
     Timestamp(2024, 12, 30, 0, 0), Timestamp(2024, 12, 31, 0, 0)}

DailySets == {S \in SUBSET DailyPool : Cardinality(S) \in 1 .. MaxSparse}

\* Days of the constant daily series (one non-leap year).
YearDays == 365

DailySeries ==
    {<<>>, Contiguous(Timestamp(2023, 1, 1, 0, 0), YearDays, MinutesPerDay, FALSE)}
        \cup {Ascending(S) : S \in DailySets}
        \cup {Reverse(Ascending(S)) : S \in {X \in DailySets : Cardinality(X) = 2}}

\* Rows of the longest short series handed to the moving average and backcast.
MaxShort == 4

ShortSeries ==
    {Contiguous(T0, n, 60, TRUE) : n \in 0 .. MaxShort}
        \cup {Reverse(Contiguous(T0, n, MinutesPerDay, TRUE)) : n \in 2 .. MaxShort}
        \cup {Contiguous(T0, 24 + n, 60, r) : n \in {0, 6}, r \in BOOLEAN}

Windows == {-1, 0, 1, 2, 24}

ForecastFuncs == {"forecast_next_hour", "forecast_next_day_seasonal"}

\* What the fits do: three AIC tables, and the orders whose fit raises.
Outcome(table, o) ==
    [ok |-> TRUE,
     aic |-> IF table = 1 THEN QInt(o[1] + o[2] + o[3])
             ELSE IF table = 2 THEN QInt(-GridIndex(o))
             ELSE QInt(7),
     forecast |-> QInt(100 + GridIndex(o))]

FailSets ==
    {{}, AllOrders} \cup {{o} : o \in AllOrders} \cup {AllOrders \ {o} : o \in AllOrders}

FitOracles ==
    {[o \in AllOrders |-> IF o \in F THEN [ok |-> FALSE] ELSE Outcome(table, o)] :
        F \in FailSets, table \in 1 .. 3}

OrderArgs == {None, Some(<<1, 0, 0>>), Some(<<0, 0, 0>>)}

\* Longest construction period and operational life handed to run_example.
MaxConstructionYears == 2

MaxOperationalYears == 2

\* Plants of run_example: capacity (MW), capacity factor, price (USD/MWh).
ExamplePlants == {<<QOne, QOne, QInt(12500)>>}

\* fuel_cost_per_mwh, fuel_cost_per_refueling and maintenance_days: a direct
\* fuel cost with and without maintenance, and the cost of an 18-month cycle
\* of the same plant at 10 per MWh.
ExampleOperations ==
    {<<Some(QInt(10)), None, 30>>, <<Some(QInt(10)), None, 0>>,
     <<None, Some(QInt(129600)), 30>>}

\* Inflation of the operating cost, decommissioning cost, residual value.
ExampleInflations == {QZero, Q(1, 50)}

ExampleDecommissioning == {QZero, QInt(5)}

ExampleResiduals == {QZero, QOne}

(***************************************************************************)
(* The caller                                                              *)
(***************************************************************************)
Idle == [op |-> "idle"]

Init == call = Idle /\ ret = [kind |-> "none"] /\ frame = <<>>

Call_calculate_npv ==
    /\ call = Idle
    /\ \E cfs \in CashFlowSeqs, r \in Rates :
          /\ call' = [op |-> "calculate_npv", net_cash_flows |-> cfs,
                      discount_rate |-> r]
          /\ ret' = calculate_npv(cfs, r)
          /\ frame' = <<>>

Call_calculate_lcoe ==
    /\ call = Idle
    /\ \E inv \in InvestSchedules, opx \in OpexSchedules, en \in EnergySchedules,
          r \in Rates, rv \in ResidualValues :
          /\ call' = [op |-> "calculate_lcoe", investment_costs |-> inv,
                      operation_costs |-> opx, energy_production |-> en,
                      discount_rate |-> r, residual_value |-> rv]
          /\ ret' = calculate_lcoe(inv, opx, en, r, rv)
          /\ frame' = <<>>

Call_calculate_discounted_payback_period ==
    /\ call = Idle
    /\ \E cfs \in CashFlowSeqs, r \in Rates :
          /\ call' = [op |-> "calculate_discounted_payback_period",
                      net_cash_flows |-> cfs, discount_rate |-> r]
          /\ ret' = calculate_discounted_payback_period(cfs, r)
          /\ frame' = <<>>

Call_simulate_plant_operation ==
    /\ call = Idle
    /\ \E prices \in SimSeries, plant \in Plants, d \in MaintenanceDays,
          k \in MaintenanceIntervals :
          \E fa \in FuelArgs(plant[1], plant[2]) :
             /\ call' = [op |-> "simulate_plant_operation", prices |-> prices,
                         capacity_mw |-> plant[1], fuel_cost_per_mwh |-> fa[1],
                         maintenance_days |-> d, capacity_factor |-> plant[2],
                         maintenance_interval_months |-> k,
                         fuel_cost_per_refueling |-> fa[2],
                         refueling_cycle_months |-> fa[3]]
             /\ ret' = simulate_plant_operation(prices, plant[1], fa[1], d, plant[2],
                                                k, fa[2], fa[3])
             /\ frame' = simulate_plant_operation_frame(prices, ret')

Call_forecast_next_hour ==
    /\ call = Idle
    /\ \E prices \in ShortSeries, w \in Windows :
          /\ call' = [op |-> "forecast_next_hour", prices |-> prices, window |-> w]
          /\ ret' = forecast_next_hour(prices, w)
          /\ frame' = forecast_next_hour_frame(prices)

Call_forecast_arima ==
    /\ call = Idle
    /\ \E prices \in {<<>>, Contiguous(T0, MaxShort, 60, TRUE)},
          order \in OrderArgs, fit \in FitOracles :
          /\ call' = [op |-> "forecast_arima", prices |-> prices, order |-> order,
                      fit |-> fit]
          /\ ret' = forecast_arima(prices, order, fit)
          /\ frame' = prices

Call_forecast_next_day_seasonal ==
    /\ call = Idle
    /\ \E prices \in DailySeries :
          /\ call' = [op |-> "forecast_next_day_seasonal", prices |-> prices]
          /\ ret' = forecast_next_day_seasonal(prices)
          /\ frame' = forecast_next_day_seasonal_frame(prices)

Call_backcast ==
    /\ call = Idle
    /\ \E prices \in ShortSeries, f \in ForecastFuncs, w \in Windows :
          /\ call' = [op |-> "backcast", prices |-> prices, forecast_func |-> f,
                      window |-> w]
          /\ ret' = backcast(prices, f, w)
          /\ frame' = backcast_frame(prices, f, w)

\* The caller takes the result (or the exception) and is free to call again.
Resume ==
    /\ call # Idle
    /\ call' = Idle
    /\ ret' = [kind |-> "none"]
    /\ frame' = <<>>

Next ==
    \/ Call_calculate_npv
    \/ Call_calculate_lcoe
    \/ Call_calculate_discounted_payback_period
    \/ Call_simulate_plant_operation
    \/ Call_forecast_next_hour
    \/ Call_forecast_arima
    \/ Call_forecast_next_day_seasonal
    \/ Call_backcast
    \/ Resume

Spec == Init /\ [][Next]_vars

\* The parameter file.
Params(cy, oy, plant, fa, infl, decom, resid) ==
    [construction_period_years |-> cy,
     operational_life_years |-> oy,
     discount_rate |-> QZero,
     overnight_cost_usd_million |-> QInt(6),
     annual_operation_cost_usd_million |-> QInt(2),
     op_cost_inflation |-> infl,
     decommissioning_cost_usd_million |-> decom,
     residual_value_usd_million |-> resid,
     plant_capacity_mw |-> plant[1],
     capacity_factor |-> plant[2],
     electricity_price_usd_per_mwh |-> plant[3],
     fuel_cost_per_mwh |-> fa[1],
     fuel_cost_per_refueling |-> fa[2],
     refueling_cycle_months |-> 18,
     maintenance_days |-> fa[3]]

\* The parameter files with the simulated operation of each (lines 198-226),
\* which does not depend on the cost parameters and is computed once for
\* them all.
ExampleRuns(cys, oys) ==
    UNION {LET operation == ExampleOperation(oy, plant[3], plant[1], plant[2],
                                             fa[1], fa[2], 18, fa[3])
           IN  {[params |-> Params(cy, oy, plant, fa, infl, decom, resid),
                 operation |-> operation] :
                    cy \in cys, infl \in ExampleInflations,
                    decom \in ExampleDecommissioning, resid \in ExampleResiduals} :
           oy \in oys, plant \in ExamplePlants, fa \in ExampleOperations}

\* main(): run_example on a parameter file.
Call_run_example ==
    /\ call = Idle
    /\ \E run \in ExampleRuns(0 .. MaxConstructionYears, 0 .. MaxOperationalYears) :
          /\ call' = [op |-> "run_example", params |-> run.params]
          /\ ret' = RunExampleWith(run.params, run.operation)
          /\ frame' = <<>>

NextExample ==
    \/ Call_run_example
    \/ Resume

SpecExample == Init /\ [][NextExample]_vars

(***************************************************************************)
(* Properties                                                              *)
(***************************************************************************)

\* 1 + rate
Base(rate) == QAdd(QOne, rate)

\* seq[1] * b^(n-1) + seq[2] * b^(n-2) + ... + seq[n]: the sum of the
\* seq[t] / b^t (t = 1 .. n) multiplied by b^n, without any division.
Scaled(seq, b) ==
    QSumRange([t \in 1 .. Len(seq) |-> QMul(seq[t], QPow(b, Len(seq) - t))],
              1, Len(seq))

\* C4: calculate_npv returns the sum over zero-based positions t of
\* cashflows[t] / (1 + rate)^(t + 1), and 0 for the empty sequence.  Stated
\* without division: result * (1 + rate)^n equals the sum of
\* cashflows[t] * (1 + rate)^(n - 1 - t).  Where 1 + rate = 0 and the sequence
\* is not empty the claimed sum has no value (the code raises
\* ZeroDivisionError) and nothing is stated.
C4_NpvIsDiscountedSum ==
    call.op = "calculate_npv" =>
        LET cfs == call.net_cash_flows
            b == Base(call.discount_rate)
        IN  (~QIsZero(b) \/ Len(cfs) = 0) =>
                /\ ret.kind = "return"
                /\ QMul(ret.value, QPow(b, Len(cfs))) = Scaled(cfs, b)
                /\ (Len(cfs) = 0 => ret.value = QZero)

\* The test's case: [-100, 60, 60] at 10% is worth 5000/1331.
C4_Witness ==
    /\ call.op = "calculate_npv"
    /\ call.net_cash_flows = <<QInt(-100), QInt(60), QInt(60)>>
    /\ call.discount_rate = Q(1, 10)
    /\ ret = Return(Q(5000, 1331))

\* C3: calculate_lcoe raises ValueError unless the three schedules have the
\* same length n; otherwise it returns +infinity when the discounted energy
\* is zero and else (discounted investment + discounted operating cost -
\* residual / (1 + rate)^n) / discounted energy.  Stated with every sum
\* multiplied by (1 + rate)^n: result * SE = SI + SO - residual.  Where
\* 1 + rate = 0 and n > 0 the quotients have no value and nothing is stated.
C3_LcoeFormula ==
    call.op = "calculate_lcoe" =>
        LET inv == call.investment_costs
            opx == call.operation_costs
            en == call.energy_production
            b == Base(call.discount_rate)
        IN  IF ~(Len(inv) = Len(opx) /\ Len(opx) = Len(en))
            THEN ret.kind = "raise" /\ ret.exc = "ValueError"
            ELSE (~QIsZero(b) \/ Len(inv) = 0) =>
                   /\ ret.kind = "return"
                   /\ IF QIsZero(Scaled(en, b)) THEN ret.value = Inf
                      ELSE /\ ret.value # Inf
                           /\ QMul(ret.value, Scaled(en, b))
                                = QSub(QAdd(Scaled(inv, b), Scaled(opx, b)),
                                       call.residual_value)

\* The test's case (residual 0 there, 5 here): (50/1.1 + 10/1.21 - 5/1.21)
\* / (100/1.21) = 3/5.
C3_Witness ==
    /\ call.op = "calculate_lcoe"
    /\ call.investment_costs = <<QInt(50), QZero>>
    /\ call.operation_costs = <<QZero, QInt(10)>>
    /\ call.energy_production = <<QZero, QInt(100)>>
    /\ call.discount_rate = Q(1, 10)
    /\ call.residual_value = QInt(5)
    /\ ret = Return(Q(3, 5))

\* The cumulative sum of cashflows[i] / (1 + rate)^i over i = 0 .. t.
Cumulative(cfs, rate, t) ==
    QSumRange([i \in 1 .. Len(cfs) |-> QDiv(cfs[i], QPow(Base(rate), i - 1))],
              1, t + 1)

\* C5: calculate_discounted_payback_period returns the smallest zero-based
\* t whose cumulative sum of cashflows[i] / (1 + rate)^i (i = 0 .. t, the
\* first one undiscounted) is >= 0, and None, without raising, when there is
\* none.  Where 1 + rate = 0 the terms after the first have no value and
\* nothing is stated.
C5_PaybackIsFirstNonNegative ==
    (call.op = "calculate_discounted_payback_period"
        /\ ~QIsZero(Base(call.discount_rate))) =>
        LET cfs == call.net_cash_flows
            r == call.discount_rate
            reached == {t \in 0 .. Len(cfs) - 1 : QGeq(Cumulative(cfs, r, t), QZero)}
        IN  /\ ret.kind = "return"
            /\ IF reached = {} THEN ret.value = None
               ELSE /\ ret.value # None
                    /\ ret.value[1] \in reached
                    /\ \A t \in reached : ret.value[1] <= t

\* The test's case: [-100, 40, 40, 40] at 5% pays back at index 3, the
\* cumulative sum being negative at 0, 1 and 2.
C5_Witness ==
    /\ call.op = "calculate_discounted_payback_period"
    /\ call.net_cash_flows = <<QInt(-100), QInt(40), QInt(40), QInt(40)>>
    /\ call.discount_rate = Q(1, 20)
    /\ ret = Return(Some(3))
    /\ QLess(Cumulative(call.net_cash_flows, call.discount_rate, 2), QZero)

(***************************************************************************)
(* Properties of simulate_plant_operation                                  *)
(***************************************************************************)
SimCall == call.op = "simulate_plant_operation"

\* The call ran the maintenance loop and returned its table.
SimReturned ==
    /\ SimCall
    /\ call.maintenance_days > 0
    /\ call.maintenance_interval_months >= 1
    /\ ret.kind = "return"

\* Consecutive rows at least gap minutes apart, in timestamp order.
Spaced(prices, gap) ==
    \A i \in 1 .. Len(prices) - 1 :
        prices[i + 1].timestamp - prices[i].timestamp >= gap

\* Consecutive rows exactly one hour apart.
HourlyContiguous(prices) ==
    \A i \in 1 .. Len(prices) - 1 :
        prices[i + 1].timestamp - prices[i].timestamp = 60

InWindow(ts, start, days) == start <= ts /\ ts < start + days * MinutesPerDay

\* The window starts from s on that are not after last, each start the
\* previous one moved by k calendar months (k >= 1).
RECURSIVE CalendarStarts(_, _, _)
CalendarStarts(s, last, k) ==
    IF s > last THEN {} ELSE {s} \cup CalendarStarts(AddMonths(s, k), last, k)

\* The window starts first + j * k * 30 days that are not after last.
ThirtyDayStarts(first, last, k) ==
    {first + j * k * 30 * MinutesPerDay :
        j \in 0 .. ((last - first) \div (k * 30 * MinutesPerDay))}

\* The rows zeroed by windows of the given length at the given starts: in
\* each window the first days * 24 rows inside it.
ZeroedRows(df, starts, days) ==
    UNION {FirstN({i \in 1 .. Len(df) : InWindow(df[i].timestamp, s, days)},
                  days * 24) : s \in starts}

Min(a, b) == IF a < b THEN a ELSE b

\* C1: with maintenance_days = D > 0 on a strictly increasing hourly series
\* of N rows, every row with timestamp in [first, first + D days) has energy
\* 0 (the first min(N, 24 D) rows of a gap-free series), every row outside
\* all maintenance windows has energy capacity_mw * capacity_factor, and
\* when only the first window starts inside a gap-free series of constant
\* price P, total profit = (P - fuel_cost_per_mwh) * capacity_mw *
\* capacity_factor * max(0, N - 24 D).
C1_FirstWindowZeroed ==
    (SimReturned /\ Spaced(call.prices, 60)) =>
        LET df == ret.value.df
            N == Len(df)
            D == call.maintenance_days
            first == df[1].timestamp
            last == df[N].timestamp
            full == QMul(call.capacity_mw, call.capacity_factor)
            starts == CalendarStarts(first, last, call.maintenance_interval_months)
        IN  /\ N = Len(call.prices)
            /\ \A i \in 1 .. N :
                  InWindow(df[i].timestamp, first, D) => df[i].energy_mwh = QZero
            /\ HourlyContiguous(call.prices) =>
                  \A i \in 1 .. Min(N, 24 * D) : df[i].energy_mwh = QZero
            /\ \A i \in 1 .. N :
                  (\A s \in starts : ~InWindow(df[i].timestamp, s, D))
                      => df[i].energy_mwh = full
            /\ (/\ HourlyContiguous(call.prices)
                /\ AddMonths(first, call.maintenance_interval_months) > last
                /\ call.fuel_cost_per_mwh # None
                /\ \A i \in 1 .. N : call.prices[i].price = call.prices[1].price)
               => ret.value.total_profit
                    = QMul(QMul(QSub(call.prices[1].price, call.fuel_cost_per_mwh[1]),
                                full),
                           QInt(IF N > 24 * D THEN N - 24 * D ELSE 0))

\* The test's case: 48 hourly rows at 50, 1000 MW, factor 1, fuel 10, one
\* maintenance day: rows 1-24 idle, row 25 on running, profit 40 * 1000 * 24.
C1_Witness ==
    /\ SimReturned
    /\ call.prices = Contiguous(T0, 48, 60, FALSE)
    /\ call.capacity_mw = QInt(1000) /\ call.capacity_factor = QOne
    /\ call.fuel_cost_per_mwh = Some(QInt(10))
    /\ call.maintenance_days = 1
    /\ ret.value.df[24].energy_mwh = QZero
    /\ ret.value.df[25].energy_mwh = QInt(1000)
    /\ ret.value.total_profit = QInt(960000)

\* The per-MWh call that C2 compares with.
DirectCall(c) ==
    simulate_plant_operation(call.prices, call.capacity_mw, Some(c),
                             call.maintenance_days, call.capacity_factor,
                             call.maintenance_interval_months, None,
                             call.refueling_cycle_months)

\* The call gives no per-MWh cost and the per-refueling cost equivalent to c.
EquivalentTo(c) ==
    /\ SimCall
    /\ call.fuel_cost_per_mwh = None
    /\ call.fuel_cost_per_refueling
         = Some(EquivalentRefuelingCost(call.refueling_cycle_months, call.capacity_mw,
                                        call.capacity_factor, c))

EnergyPerCycleIsZero ==
    \/ call.refueling_cycle_months = 0
    \/ QIsZero(call.capacity_mw)
    \/ QIsZero(call.capacity_factor)

\* C2 as claimed: for every series, plant, maintenance setting and rate c,
\* the call with fuel_cost_per_mwh = None and fuel_cost_per_refueling =
\* cycle * 30 * 24 * capacity * factor * c gives the result of the call with
\* fuel_cost_per_mwh = c.
C2_AsClaimed ==
    \A c \in FuelRates : EquivalentTo(c) => ret = DirectCall(c)

\* C2 as amended: the two calls give the same result (total profit and every
\* row, fuel cost and profit included) provided the energy per cycle,
\* refueling_cycle_months * 720 * capacity_mw * capacity_factor, is not zero;
\* when it is zero and the series is not empty the per-refueling call raises
\* ZeroDivisionError.
C2_EquivalentRefuelingCost ==
    \A c \in FuelRates :
        EquivalentTo(c) =>
            IF EnergyPerCycleIsZero
            THEN ~Empty(call.prices) => ret = ZeroDivision
            ELSE ret = DirectCall(c)

\* The test's case, given as a per-refueling cost of 10 * 1000 * 12960.
C2_Witness ==
    /\ EquivalentTo(QInt(10))
    /\ call.fuel_cost_per_refueling = Some(QInt(129600000))
    /\ call.prices = Contiguous(T0, 48, 60, FALSE)
    /\ call.maintenance_days = 1
    /\ ret.kind = "return"
    /\ ret.value.total_profit = QInt(960000)
    /\ ret.value.df[25].fuel_cost = QInt(10000)

\* Every row of the returned table is idle exactly inside the windows at the
\* given starts.
EnergyFollows(starts) ==
    LET df == ret.value.df
        zeroed == ZeroedRows(df, starts, call.maintenance_days)
    IN  \A i \in 1 .. Len(df) :
            df[i].energy_mwh
              = IF i \in zeroed THEN QZero
                ELSE QMul(call.capacity_mw, call.capacity_factor)

\* C8 as claimed: the window starts are first + j * interval * 30 days.
C8_AsClaimed ==
    SimReturned =>
        EnergyFollows(ThirtyDayStarts(ret.value.df[1].timestamp,
                                      ret.value.df[Len(ret.value.df)].timestamp,
                                      call.maintenance_interval_months))

\* C8 as amended: the window starts are the first timestamp and then each
\* start moved by maintenance_interval_months calendar months (same day of
\* the month, or the month's last day when it is shorter; same time of day)
\* for as long as the start is not after the last timestamp; in each window
\* the first maintenance_days * 24 rows with timestamp in
\* [start, start + maintenance_days days) are zeroed, and no other row is.
C8_CalendarMonthWindows ==
    SimReturned =>
        EnergyFollows(CalendarStarts(ret.value.df[1].timestamp,
                                     ret.value.df[Len(ret.value.df)].timestamp,
                                     call.maintenance_interval_months))

\* Rows on January 1st, January 31st and February 1st, a window every month:
\* the second window starts on February 1st, not 30 days after January 1st.
C8_Witness ==
    /\ SimReturned
    /\ call.maintenance_interval_months = 1 /\ call.maintenance_days = 1
    /\ call.capacity_mw = QInt(1000) /\ call.capacity_factor = QOne
    /\ Len(ret.value.df) = 3
    /\ ret.value.df[1].timestamp = Timestamp(2024, 1, 1, 0, 0)
    /\ ret.value.df[2].timestamp = Timestamp(2024, 1, 1, 0, 0) + 30 * MinutesPerDay
    /\ ret.value.df[3].timestamp = Timestamp(2024, 2, 1, 0, 0)
    /\ ret.value.df[1].energy_mwh = QZero
    /\ ret.value.df[2].energy_mwh = QInt(1000)
    /\ ret.value.df[3].energy_mwh = QZero

(***************************************************************************)
(* Properties of the forecasters and backcast                              *)
(***************************************************************************)

\* C6: backcast(prices, f, window = w) on a series of length L > w (w >= 1
\* rows of history) returns L - w rows in index order; the row for the
\* 0-based index i, w <= i < L, has the timestamp and price of row i as
\* timestamp and actual, predicted = f(rows i-w .. i-1) and error = actual -
\* predicted; on a constant series with the moving average every error is 0.
C6_BackcastRows ==
    (/\ call.op = "backcast"
     /\ call.window >= 1
     /\ Len(call.prices) > call.window) =>
        LET prices == call.prices
            w == call.window
            L == Len(prices)
        IN  /\ ret.kind = "return"
            /\ Len(ret.value) = L - w
            /\ \A j \in 1 .. L - w :
                  LET i == w + j - 1
                      row == ret.value[j]
                      f == ApplyForecast(call.forecast_func, SubSeq(prices, i - w + 1, i))
                  IN  /\ row.timestamp = prices[i + 1].timestamp
                      /\ row.actual = prices[i + 1].price
                      /\ f.kind = "return"
                      /\ row.predicted = f.value
                      /\ row.error = QSub(row.actual, row.predicted)
            /\ (/\ call.forecast_func = "forecast_next_hour"
                /\ \A i \in 1 .. L : prices[i].price = prices[1].price)
               => \A j \in 1 .. L - w :
                     /\ ret.value[j].predicted = ret.value[j].actual
                     /\ ret.value[j].error = QZero

\* The test's case: 30 constant hourly rows, window 24, six rows of error 0.
C6_Witness ==
    /\ call.op = "backcast"
    /\ call.prices = Contiguous(T0, 30, 60, FALSE)
    /\ call.forecast_func = "forecast_next_hour"
    /\ call.window = 24
    /\ ret.kind = "return"
    /\ Len(ret.value) = 6
    /\ ret.value[1].timestamp = T0 + 24 * 60
    /\ ret.value[6].error = QZero

\* C7: an empty price series makes the simulator, the three forecasters and
\* backcast raise ValueError, with no result and no ARIMA fit attempted;
\* backcast raises its "Not enough data" ValueError whenever the length of
\* the series is not strictly greater than window.
C7_EmptySeriesRejected ==
    /\ (/\ call.op \in {"simulate_plant_operation", "forecast_next_hour",
                        "forecast_arima", "forecast_next_day_seasonal", "backcast"}
        /\ call.prices = <<>>)
       => /\ ret.kind = "raise"
          /\ ret.exc = "ValueError"
          /\ DOMAIN ret = {"kind", "exc", "msg"}
    /\ (call.op = "backcast" /\ Len(call.prices) <= call.window)
       => ret = Raise("ValueError", "Not enough data for backcasting")

\* backcast of a series exactly as long as its window.
C7_Witness ==
    /\ call.op = "backcast"
    /\ Len(call.prices) = 2
    /\ call.window = 2
    /\ ret = Raise("ValueError", "Not enough data for backcasting")

\* The grid orders whose fit succeeds.
Succeeded(fit) == {o \in AllOrders \ {<<0, 0, 0>>} : fit[o].ok}

\* C9: with no order given, the order of the final fit is a grid order other
\* than (0,0,0) whose fit succeeded with the lowest AIC among the fits that
\* succeeded (the first such order in loop order), whatever fits raised; it
\* is (1,0,0) when no fit succeeded; the final fit is then made with that
\* order and the call returns its forecast when that fit succeeds.
C9_GridSearchOrder ==
    (/\ call.op = "forecast_arima"
     /\ call.prices # <<>>
     /\ call.order = None) =>
        LET fit == call.fit
            ok == Succeeded(fit)
        IN  /\ "order" \in DOMAIN ret
            /\ IF ok = {} THEN ret.order = <<1, 0, 0>>
               ELSE /\ ret.order \in ok
                    /\ \A o \in ok : QGeq(fit[o].aic, fit[ret.order].aic)
                    /\ \A o \in ok :
                          fit[o].aic = fit[ret.order].aic
                              => GridIndex(ret.order) <= GridIndex(o)
            /\ ret.kind = "return" <=> fit[ret.order].ok
            /\ ret.kind = "return" => ret.value = fit[ret.order].forecast

\* Every fit of the search raises: the final fit is made with (1,0,0).
C9_Witness ==
    /\ call.op = "forecast_arima"
    /\ call.prices # <<>>
    /\ call.order = None
    /\ Succeeded(call.fit) = {}
    /\ ret.order = <<1, 0, 0>>

\* The sum of the prices of the rows lo .. hi whose position is in S.
RECURSIVE SumIn(_, _, _, _)
SumIn(prices, lo, hi, S) ==
    IF lo > hi THEN QZero
    ELSE IF lo = hi THEN (IF lo \in S THEN prices[lo].price ELSE QZero)
    ELSE LET mid == (lo + hi) \div 2
         IN  QAdd(SumIn(prices, lo, mid, S), SumIn(prices, mid + 1, hi, S))

\* The mean price of the rows at the positions S (S not empty).
MeanOver(prices, S) ==
    QDiv(SumIn(prices, 1, Len(prices), S), QInt(Cardinality(S)))

\* C10: on a non-empty series forecast_next_day_seasonal returns the mean of
\* the prices whose day-of-year is that of (latest timestamp + 1 day) when
\* there is such a row, and the mean of all prices otherwise; on a series of
\* constant price c it returns c.
C10_SeasonalMean ==
    (call.op = "forecast_next_day_seasonal" /\ call.prices # <<>>) =>
        LET prices == call.prices
            N == Len(prices)
            latest == CHOOSE t \in {prices[i].timestamp : i \in 1 .. N} :
                          \A i \in 1 .. N : prices[i].timestamp <= t
            target == DayOfYear(latest + MinutesPerDay)
            same == {i \in 1 .. N : DayOfYear(prices[i].timestamp) = target}
        IN  /\ ret = Return(MeanOver(prices, IF same # {} THEN same ELSE 1 .. N))
            /\ (\A i \in 1 .. N : prices[i].price = prices[1].price)
                  => ret = Return(prices[1].price)

\* Rows on 2022-03-01, 2023-03-01 and 2024-02-28: the next day, February
\* 29th, is day 60, as are the two March 1sts: (21 + 31) / 2.
C10_Witness ==
    /\ call.op = "forecast_next_day_seasonal"
    /\ Len(call.prices) = 3
    /\ call.prices[1].timestamp = Timestamp(2022, 3, 1, 0, 0)
    /\ call.prices[2].timestamp = Timestamp(2023, 3, 1, 0, 0)
    /\ call.prices[3].timestamp = Timestamp(2024, 2, 28, 0, 0)
    /\ ret = Return(QInt(26))

(***************************************************************************)
(* The caller's series                                                     *)
(***************************************************************************)

C14_SimulationTerminates ==
    (/\ SimCall
     /\ ~Empty(call.prices)
     /\ ret.kind # "raise") =>
        /\ ret.kind = "return"
        /\ call.maintenance_days > 0 =>
              LET start == SortByTimestamp(call.prices)[1].timestamp
              IN  NextStart(start, call.maintenance_interval_months) > start

(***************************************************************************)
(* Properties of run_example (checked under SpecExample)                   *)
(***************************************************************************)

\* run_example ran to its end on the parameter file.
ExampleReturned == call.op = "run_example" /\ ret.kind = "return"

\* C12: the operating-cost schedule is 0 in every construction year and
\* annual_op_cost * (1 + op_cost_inflation)^k in the k-th operational year
\* (k from 0), plus the decommissioning cost in the final year only; energy
\* and revenue are 0 in every construction year and the k-th simulated year
\* is the year's sum times 0.999^k (revenue in millions); the net cash flow
\* of each year is revenue - (investment + operating cost).
C12_ExampleSchedules ==
    ExampleReturned =>
        LET p == call.params
            l == ret.locals
            cy == p.construction_period_years
            oy == p.operational_life_years
        IN  /\ Len(l.op_cost_schedule) = cy + oy
            /\ \A i \in 1 .. cy + oy :
                  l.op_cost_schedule[i]
                    = QAdd(IF i <= cy THEN QZero
                           ELSE QMul(p.annual_operation_cost_usd_million,
                                     QPow(QAdd(QOne, p.op_cost_inflation), i - cy - 1)),
                           IF i = cy + oy THEN p.decommissioning_cost_usd_million
                           ELSE QZero)
            /\ \A i \in 1 .. cy :
                  l.energy_schedule[i] = QZero /\ l.revenue_schedule[i] = QZero
            /\ Len(l.energy_schedule) = cy + Len(l.energy_by_year)
            /\ Len(l.revenue_schedule) = cy + Len(l.revenue_by_year)
            /\ \A k \in 0 .. Len(l.energy_by_year) - 1 :
                  /\ l.energy_schedule[cy + k + 1]
                       = QMul(l.energy_by_year[k + 1], QPow(Q(999, 1000), k))
                  /\ l.revenue_schedule[cy + k + 1]
                       = QDiv(QMul(l.revenue_by_year[k + 1], QPow(Q(999, 1000), k)),
                              QInt(1000000))
            /\ Len(l.net_cash_flows) = cy + oy
            /\ \A i \in 1 .. cy + oy :
                  l.net_cash_flows[i]
                    = QSub(l.revenue_schedule[i],
                           QAdd(l.investment_schedule[i], l.op_cost_schedule[i]))

\* Two construction and two operational years, 2% inflation, decommissioning
\* 5: operating costs 0, 0, 2, 2 * 1.02 + 5; the second simulated year
\* (8016 hours at 1 MW) scaled by 0.999.
C12_Witness ==
    /\ ExampleReturned
    /\ call.params.construction_period_years = 2
    /\ call.params.operational_life_years = 2
    /\ call.params.maintenance_days = 30
    /\ ret.locals.op_cost_schedule = <<QZero, QZero, QInt(2), Q(176, 25)>>
    /\ ret.locals.energy_by_year = <<QInt(8064), QInt(8016)>>
    /\ ret.locals.energy_schedule = <<QZero, QZero, QInt(8064), Q(1000998, 125)>>
    /\ ret.locals.net_cash_flows[4] = Q(465299, 5000)

\* C13: for construction_period_years >= 1 and operational_life_years >= 1
\* the investment, operating-cost, energy and revenue schedules all have
\* length construction_period_years + operational_life_years, the hourly
\* rows from 2024-01-01 falling in exactly operational_life_years calendar
\* years; neither the length check of calculate_lcoe nor the subtraction of
\* the net cash flows raises ValueError.
C13_ScheduleLengths ==
    (/\ call.op = "run_example"
     /\ call.params.construction_period_years >= 1
     /\ call.params.operational_life_years >= 1) =>
        LET n == call.params.construction_period_years
                    + call.params.operational_life_years
        IN  /\ ret.kind = "raise" => ret.exc # "ValueError"
            /\ ret.kind = "return" =>
                  /\ Len(ret.locals.energy_by_year) = call.params.operational_life_years
                  /\ Len(ret.locals.revenue_by_year) = call.params.operational_life_years
                  /\ Len(ret.locals.investment_schedule) = n
                  /\ Len(ret.locals.op_cost_schedule) = n
                  /\ Len(ret.locals.energy_schedule) = n
                  /\ Len(ret.locals.revenue_schedule) = n
                  /\ Len(ret.locals.net_cash_flows) = n
                  /\ ret.locals.total_years = n

\* Two operational years: 730 days from 2024-01-01 end on 2025-12-30, in
\* two calendar years of 366 and 364 days.
C13_Witness ==
    /\ ExampleReturned
    /\ call.params.construction_period_years = 1
    /\ call.params.operational_life_years = 2
    /\ call.params.maintenance_days = 0
    /\ ret.locals.energy_by_year = <<QInt(8784), QInt(8736)>>
    /\ Len(ret.locals.energy_schedule) = 3

=============================================================================
